---- MODULE Spec2Model ----
(***************************************************************************)
(* Model of dags/excel_to_postgres.py: the DAG excel_to_postgres_daily.    *)
(*   list_excel_files -> validate_and_transform (one mapped task instance  *)
(*   per file) -> load_upsert (one mapped task instance per transformed    *)
(*   file), over the directories incoming/, archive/, error/ and the       *)
(*   table sales_daily.                                                    *)
(* File names and cell texts are sequences of one-character strings, so    *)
(* that glob matching, the lock-file prefix, sorting, with_suffix, strip   *)
(* and to_numeric are computed the way the code computes them.             *)
(***************************************************************************)
EXTENDS Integers, Sequences, FiniteSets, TLC

\* ------------------------------------------------------------------ bounds
\* At most this many files lie in incoming/ when the run is triggered.
MaxFiles == 2
\* At most this many data rows per spreadsheet.
MaxRows == 2

\* ------------------------------------------------------------ text helpers
\* Code point of the characters that occur in the modelled names.
Ord(ch) ==
  CASE ch = "$" -> 36  [] ch = "." -> 46
    [] ch = "L" -> 76  [] ch = "S" -> 83  [] ch = "X" -> 88
    [] ch = "a" -> 97  [] ch = "b" -> 98  [] ch = "c" -> 99
    [] ch = "l" -> 108 [] ch = "s" -> 115 [] ch = "t" -> 116
    [] ch = "v" -> 118 [] ch = "x" -> 120 [] ch = "~" -> 126

StartsWith(s, p) == Len(s) >= Len(p) /\ SubSeq(s, 1, Len(p)) = p

EndsWith(s, p) == Len(s) >= Len(p) /\ SubSeq(s, Len(s) - Len(p) + 1, Len(s)) = p

\* Python's string order: lexicographic by code point, a proper prefix first.
RECURSIVE StrLess(_, _)
StrLess(a, b) ==
  IF a = <<>> THEN b # <<>>
  ELSE IF b = <<>> THEN FALSE
  ELSE IF a[1] = b[1] THEN StrLess(Tail(a), Tail(b))
  ELSE Ord(a[1]) < Ord(b[1])

\* sorted(set(...)): the elements of S in ascending order.
RECURSIVE Sorted(_)
Sorted(S) ==
  IF S = {} THEN <<>>
  ELSE LET m == CHOOSE x \in S : \A y \in S : y = x \/ StrLess(x, y)
       IN  <<m>> \o Sorted(S \ {m})

Range(s) == {s[i] : i \in 1..Len(s)}

\* ------------------------------------------------------------- file names
DotXlsx == <<".", "x", "l", "s", "x">>
DotXLSX == <<".", "X", "L", "S", "X">>
DotCsv  == <<".", "c", "s", "v">>
LockPrefix == <<"~", "$">>

NameA      == <<"a">> \o DotXlsx
NameAUpper == <<"a">> \o DotXLSX
NameB      == <<"b">> \o DotXlsx
NameBMixed == <<"b", ".", "X", "l", "s", "x">>
NameLock   == LockPrefix \o NameA
NameTxt    == <<"c", ".", "t", "x", "t">>

\* The names a file dropped into incoming/ may have.
FileNames == {NameA, NameAUpper, NameB, NameBMixed, NameLock, NameTxt}

\* Path.glob("*" + suffix) on a POSIX file system: fnmatch is case-sensitive.
Glob(dir, suffix) == {n \in dir : EndsWith(n, suffix)}

\* Index of the last "." that starts a suffix (pathlib: not the first
\* character of the name, not the last), 0 when the name has no suffix.
SuffixStart(n) ==
  LET dots == {i \in 2..(Len(n) - 1) : n[i] = "."}
  IN  IF dots = {} THEN 0 ELSE CHOOSE i \in dots : \A j \in dots : j <= i

\* Path.with_suffix(suffix).
WithSuffix(n, suffix) ==
  IF SuffixStart(n) = 0 THEN n \o suffix
  ELSE SubSeq(n, 1, SuffixStart(n) - 1) \o suffix

\* list_excel_files, lines 41-44: both glob patterns, set, sorted, lock files out.
ExcelFiles(dir) ==
  LET found == Glob(dir, DotXlsx) \cup Glob(dir, DotXLSX)
  IN  SelectSeq(Sorted(found), LAMBDA f : ~StartsWith(f, LockPrefix))

\* ------------------------------------------------------------ spreadsheets
\* REQ_COLUMNS, lines 16-22: spreadsheet column -> final column.
REQ_COLUMNS ==
  [id |-> "id", name_sales_code |-> "salescode", date_order |-> "dateorder",
   amount_total |-> "totalsales", brand |-> "brand"]

\* A cell is the text typed into it, a sequence of characters; the empty
\* sequence is an empty cell, which read_excel yields as NaN.  Dates are kept
\* as strings.
Digits == {"0", "1", "2", "3", "4", "5", "6", "7", "8", "9"}

DigitVal(ch) ==
  CASE ch = "0" -> 0 [] ch = "1" -> 1 [] ch = "2" -> 2 [] ch = "3" -> 3
    [] ch = "4" -> 4 [] ch = "5" -> 5 [] ch = "6" -> 6 [] ch = "7" -> 7
    [] ch = "8" -> 8 [] ch = "9" -> 9

IsNumeric(cell) == cell # <<>> /\ \A i \in 1..Len(cell) : cell[i] \in Digits

RECURSIVE NumberOf(_)
NumberOf(cell) ==
  IF cell = <<>> THEN 0
  ELSE 10 * NumberOf(SubSeq(cell, 1, Len(cell) - 1)) + DigitVal(cell[Len(cell)])

\* The dates pd.to_datetime can parse, among the date cells of the samples.
ValidDates == {"2025-01-01", "2025-01-02"}
NaT == "NaT"

\* pd.to_numeric on one cell: a number, or NaN for an empty cell; `bad` marks
\* text that is no number (errors="raise" raises on it, "coerce" makes it NaN).
ToNumeric(cell) ==
  IF IsNumeric(cell) THEN [nan |-> FALSE, bad |-> FALSE, v |-> NumberOf(cell)]
  ELSE [nan |-> TRUE, bad |-> cell # <<>>, v |-> 0]

\* astype(str): NaN becomes the text "nan".
AsStr(cell) == IF cell = <<>> THEN <<"n", "a", "n">> ELSE cell

\* str.strip(): leading and trailing blanks removed.
RECURSIVE LStrip(_)
LStrip(s) == IF s # <<>> /\ s[1] = " " THEN LStrip(Tail(s)) ELSE s

RECURSIVE RStrip(_)
RStrip(s) ==
  IF s # <<>> /\ s[Len(s)] = " " THEN RStrip(SubSeq(s, 1, Len(s) - 1)) ELSE s

Strip(s) == RStrip(LStrip(s))

\* Line 63: the columns of REQ_COLUMNS the sheet lacks.
MissingColumns(sheet) == {c \in DOMAIN REQ_COLUMNS : c \notin sheet.cols}

\* Line 74, pd.to_numeric(df["id"], errors="raise"): raises on text that is no number.
IdToNumericRaises(sheet) ==
  \E i \in 1..Len(sheet.rows) : ToNumeric(sheet.rows[i]["id"]).bad

\* Line 74, .astype("int64"): raises when a value is NaN.
IdAstypeRaises(sheet) ==
  \E i \in 1..Len(sheet.rows) : ToNumeric(sheet.rows[i]["id"]).nan

\* TransformRaises with the id cast of line 74 left out.
TransformRaisesNoIdCast(sheet) ==
  \/ ~sheet.readable
  \/ MissingColumns(sheet) # {}

\* Lines 60-74: the try block raises (unreadable file, missing column, id cast).
TransformRaises(sheet) ==
  \/ ~sheet.readable
  \/ MissingColumns(sheet) # {}
  \/ IdToNumericRaises(sheet)
  \/ IdAstypeRaises(sheet)

\* Line 76: pd.to_datetime(..., errors="coerce").dt.date.
ParseDate(cell) == IF cell \in ValidDates THEN cell ELSE NaT

\* Line 77: pd.to_numeric(..., errors="coerce").fillna(0.0).
ParseAmount(cell) == IF ToNumeric(cell).nan THEN 0 ELSE ToNumeric(cell).v

\* Lines 71-81 on one row: subset, rename, cast and clean.
CleanRow(r) ==
  [id         |-> ToNumeric(r["id"]).v,
   salescode  |-> Strip(AsStr(r["name_sales_code"])),
   dateorder  |-> ParseDate(r["date_order"]),
   totalsales |-> ParseAmount(r["amount_total"]),
   brand      |-> Strip(AsStr(r["brand"]))]

\* Line 84: dropna(subset=["id", "dateorder"]); id is an int64 by then.
DropNa(rows) == SelectSeq(rows, LAMBDA r : r.dateorder # NaT)

\* Lines 71-88: the rows written to the intermediate CSV.
TransformRows(sheet) ==
  DropNa([i \in 1..Len(sheet.rows) |-> CleanRow(sheet.rows[i])])

\* ----------------------------------------------------------- sample inputs
Date1 == "2025-01-01"
Date2 == "2025-01-02"

SampleRows ==
  { [id |-> <<"1">>, name_sales_code |-> <<" ", "s">>, date_order |-> Date1,
     amount_total |-> <<"5">>, brand |-> <<"x", " ">>],
    [id |-> <<"1">>, name_sales_code |-> <<"t">>, date_order |-> Date2,
     amount_total |-> <<"9", "9", "9">>, brand |-> <<"y">>],
    [id |-> <<"2">>, name_sales_code |-> <<"s">>, date_order |-> Date1,
     amount_total |-> <<"a", "b", "c">>, brand |-> <<"x">>],
    [id |-> <<"2">>, name_sales_code |-> <<"t">>, date_order |-> "soon",
     amount_total |-> <<"5">>, brand |-> <<>>],
    [id |-> <<"a", "b", "c">>, name_sales_code |-> <<"s">>, date_order |-> Date1,
     amount_total |-> <<"5">>, brand |-> <<"x">>],
    [id |-> <<>>, name_sales_code |-> <<"s">>, date_order |-> Date1,
     amount_total |-> <<"5">>, brand |-> <<"x">>] }

RowSeqs == UNION {[1..k -> SampleRows] : k \in 0..MaxRows}

ColumnSets ==
  {DOMAIN REQ_COLUMNS, DOMAIN REQ_COLUMNS \ {"brand"}, DOMAIN REQ_COLUMNS \ {"id"}}

MakeSheet(cols, rows) ==
  [readable |-> TRUE, cols |-> cols,
   rows |-> [i \in 1..Len(rows) |-> [c \in cols |-> rows[i][c]]]]

CorruptSheet == [readable |-> FALSE, cols |-> {}, rows |-> <<>>]

\* Workbooks a dropped file may hold: every row sequence with all columns,
\* the short ones with a column left out, and one file openpyxl cannot read.
Sheets ==
  {MakeSheet(c, rs) : c \in {DOMAIN REQ_COLUMNS}, rs \in RowSeqs}
    \cup {MakeSheet(c, rs) : c \in ColumnSets, rs \in {r \in RowSeqs : Len(r) <= 1}}
    \cup {CorruptSheet}

\* Not a workbook the pipeline ever opens (a lock file, a text file).
NoSheet == [readable |-> FALSE, cols |-> {}, rows |-> <<>>]

\* ------------------------------------------------------------------ state
VARIABLES
  incoming,   \* names of the spreadsheets in INCOMING_DIR
  archive,    \* names of the files in ARCHIVE_DIR
  errordir,   \* names of the files in ERROR_DIR
  content,    \* file name -> the workbook dropped under that name
  csv,        \* path -> rows of the intermediate CSV files beside the originals
  table,      \* the rows of sales_daily
  listState,  \* state of the list_excel_files task instance
  listed,     \* its return value (XCom)
  tstate,     \* file -> state of its validate_and_transform task instance
  payload,    \* file -> return value of its validate_and_transform (XCom)
  wrote,      \* file -> the rows its validate_and_transform wrote
  lstate,     \* file -> state of its load_upsert task instance
  lcause,     \* file -> what made its load_upsert raise
  staging,    \* file -> rows of the temp table of its load_upsert
  pending,    \* file -> rows its open transaction has upserted, not yet committed
  commitLog   \* the committed loads, in commit order

vars == <<incoming, archive, errordir, content, csv, table, listState, listed,
          tstate, payload, wrote, lstate, lcause, staging, pending, commitLog>>

dirs == <<incoming, archive, errordir>>
db   == <<table, staging, pending, commitLog>>

Put(fn, k, v) == [x \in DOMAIN fn \cup {k} |-> IF x = k THEN v ELSE fn[x]]
Drop(fn, k)   == [x \in DOMAIN fn \ {k} |-> fn[x]]

\* A row sales_daily may hold before the run.
OldRow ==
  [id |-> 1, salescode |-> <<"o">>, dateorder |-> Date1, totalsales |-> 1,
   brand |-> <<"o">>]

\* Files a glob pattern of list_excel_files can match hold a workbook; no task
\* opens the others.
ContentChoices(f) ==
  IF EndsWith(f, DotXlsx) \/ EndsWith(f, DotXLSX) THEN Sheets ELSE {NoSheet}

Init ==
  /\ incoming \in {S \in SUBSET FileNames : Cardinality(S) <= MaxFiles}
  /\ content \in {c \in [incoming -> Sheets \cup {NoSheet}] :
                    \A f \in incoming : c[f] \in ContentChoices(f)}
  /\ archive = {}
  /\ errordir = {}
  /\ csv = <<>>
  /\ table \in {{}, {OldRow}}
  /\ listState = "pending"
  /\ listed = <<>>
  /\ tstate = <<>>
  /\ payload = <<>>
  /\ wrote = <<>>
  /\ lstate = <<>>
  /\ lcause = <<>>
  /\ staging = <<>>
  /\ pending = <<>>
  /\ commitLog = <<>>

\* --------------------------------------------------------- list_excel_files
\* Lines 33-51, and the expansion of validate_and_transform over the result
\* (line 165).
ListExcelFiles ==
  /\ listState = "pending"
  /\ LET files == ExcelFiles(incoming)
     IN  IF files = <<>>
         THEN /\ listState' = "failed"
              /\ UNCHANGED <<listed, tstate>>
         ELSE /\ listState' = "success"
              /\ listed' = files
              /\ tstate' = [f \in Range(files) |-> "queued"]
  /\ UNCHANGED <<dirs, content, csv, payload, wrote, lstate, lcause, db>>

\* --------------------------------------------------- validate_and_transform
\* Lines 86-90: write the CSV beside the original and return the payload.
TransformReturn(f) ==
  LET tmp == WithSuffix(f, DotCsv)
  IN  /\ csv' = Put(csv, tmp, TransformRows(content[f]))
      /\ wrote' = Put(wrote, f, TransformRows(content[f]))
      /\ payload' = Put(payload, f, [filepath |-> f, tmp_csv |-> tmp])
      /\ tstate' = [tstate EXCEPT ![f] = "success"]
      /\ UNCHANGED dirs

\* Lines 92-100: move the file to error/ (a failing move is swallowed), re-raise.
TransformExcept(f) ==
  /\ IF f \in incoming
     THEN /\ incoming' = incoming \ {f}
          /\ errordir' = errordir \cup {f}
     ELSE UNCHANGED <<incoming, errordir>>
  /\ tstate' = [tstate EXCEPT ![f] = "failed"]
  /\ UNCHANGED <<archive, csv, wrote, payload>>

\* Lines 54-100.
ValidateAndTransform(f) ==
  /\ f \in DOMAIN tstate
  /\ tstate[f] = "queued"
  /\ IF TransformRaises(content[f]) THEN TransformExcept(f) ELSE TransformReturn(f)
  /\ UNCHANGED <<content, listState, listed, lstate, lcause, db>>

\* ------------------------------------------------- scheduling of load_upsert
\* Line 166: load_upsert is mapped over the output of the mapped
\* validate_and_transform, with the default trigger rule all_success: it is
\* expanded once every upstream task instance has succeeded ...
ExpandLoadUpsert ==
  /\ listState = "success"
  /\ DOMAIN lstate = {}
  /\ \A f \in DOMAIN tstate : tstate[f] = "success"
  /\ lstate' = [f \in DOMAIN tstate |-> "queued"]
  /\ UNCHANGED <<dirs, content, csv, listState, listed, tstate, payload, wrote,
                 lcause, db>>

\* ... and is set to upstream_failed, unexpanded, when any of them has failed.
UpstreamFailed ==
  /\ listState = "success"
  /\ DOMAIN lstate = {}
  /\ \E f \in DOMAIN tstate : tstate[f] = "failed"
  /\ lstate' = [f \in DOMAIN tstate |-> "upstream_failed"]
  /\ UNCHANGED <<dirs, content, csv, listState, listed, tstate, payload, wrote,
                 lcause, db>>

\* --------------------------------------------------------------- load_upsert
IdsOf(rows) == {rows[i].id : i \in 1..Len(rows)}

\* LoadRaise with the failed input routed to error/, as validate_and_transform does.
LoadRaiseMovesToError(f, cause) ==
  /\ lstate' = [lstate EXCEPT ![f] = "failed"]
  /\ lcause' = Put(lcause, f, cause)
  /\ staging' = Drop(staging, f)
  /\ pending' = Drop(pending, f)
  /\ incoming' = incoming \ {f}
  /\ errordir' = errordir \cup {f}
  /\ UNCHANGED <<archive, csv, table, commitLog>>

\* The exception leaves load_upsert: nothing catches it, the connection is
\* dropped with its transaction and temp table, no file is touched.
LoadRaise(f, cause) ==
  /\ lstate' = [lstate EXCEPT ![f] = "failed"]
  /\ lcause' = Put(lcause, f, cause)
  /\ staging' = Drop(staging, f)
  /\ pending' = Drop(pending, f)
  /\ UNCHANGED <<dirs, csv, table, commitLog>>

\* Lines 107-138: connect, create the temp table, open the CSV, COPY it.
LoadCopy(f) ==
  /\ f \in DOMAIN lstate
  /\ lstate[f] = "queued"
  /\ IF payload[f].tmp_csv \notin DOMAIN csv
     THEN LoadRaise(f, "csv_missing")
     ELSE /\ staging' = Put(staging, f, csv[payload[f].tmp_csv])
          /\ pending' = Put(pending, f, <<>>)
          /\ lstate' = [lstate EXCEPT ![f] = "staged"]
          /\ UNCHANGED <<dirs, csv, table, commitLog, lcause>>
  /\ UNCHANGED <<content, listState, listed, tstate, payload, wrote>>

\* The row the INSERT ... SELECT of f handles next.
NextRow(f) == staging[f][Len(pending[f]) + 1]

Merging(f) ==
  /\ f \in DOMAIN lstate
  /\ lstate[f] = "staged"
  /\ Len(pending[f]) < Len(staging[f])

\* The other open transactions holding the row lock of the id f needs next.
Blockers(f) ==
  {g \in DOMAIN pending \ {f} : NextRow(f).id \in IdsOf(pending[g])}

\* Lines 141-152, one row of INSERT ... ON CONFLICT (id) DO UPDATE: the row is
\* written under its row lock, kept until the transaction ends; a second row
\* with an id this statement already wrote raises; a row locked by another
\* open transaction makes the statement wait.
LoadUpsertRow(f) ==
  /\ Merging(f)
  /\ \/ /\ NextRow(f).id \in IdsOf(pending[f])
        /\ LoadRaise(f, "cardinality_violation")
     \/ /\ NextRow(f).id \notin IdsOf(pending[f])
        /\ Blockers(f) = {}
        /\ pending' = [pending EXCEPT ![f] = Append(@, NextRow(f))]
        /\ UNCHANGED <<dirs, csv, table, commitLog, lcause, staging, lstate>>
  /\ UNCHANGED <<content, listState, listed, tstate, payload, wrote>>

WaitsFor(f) == IF Merging(f) THEN Blockers(f) ELSE {}

RECURSIVE WaitClosure(_, _)
WaitClosure(S, n) ==
  IF n = 0 THEN S
  ELSE WaitClosure(S \cup UNION {WaitsFor(g) : g \in S}, n - 1)

\* The database's deadlock detector: a transaction in a cycle of waits is aborted.
LoadDeadlock(f) ==
  /\ Merging(f)
  /\ f \in WaitClosure(WaitsFor(f), Cardinality(DOMAIN lstate))
  /\ LoadRaise(f, "deadlock")
  /\ UNCHANGED <<content, listState, listed, tstate, payload, wrote>>

\* Any other database error while connecting, copying or merging.
LoadDbError(f) ==
  /\ f \in DOMAIN lstate
  /\ lstate[f] \in {"queued", "staged"}
  /\ LoadRaise(f, "db_error")
  /\ UNCHANGED <<content, listState, listed, tstate, payload, wrote>>

\* Upsert as ON CONFLICT (id) DO NOTHING: the row already stored is kept.
UpsertDoNothing(tbl, rows) ==
  tbl \cup {r \in Range(rows) : r.id \notin {t.id : t \in tbl}}

\* ON CONFLICT (id) DO UPDATE SET every other column: the staged row replaces
\* the row of the same id.
Upsert(tbl, rows) == {r \in tbl : r.id \notin IdsOf(rows)} \cup Range(rows)

\* Line 154: conn.commit() after the merge statement; the temp table is
\* dropped (ON COMMIT DROP).
LoadCommit(f) ==
  /\ f \in DOMAIN lstate
  /\ lstate[f] = "staged"
  /\ Len(pending[f]) = Len(staging[f])
  /\ table' = Upsert(table, pending[f])
  /\ commitLog' = Append(commitLog, [file |-> f, rows |-> pending[f]])
  /\ staging' = Drop(staging, f)
  /\ pending' = Drop(pending, f)
  /\ lstate' = [lstate EXCEPT ![f] = "committed"]
  /\ UNCHANGED <<dirs, content, csv, listState, listed, tstate, payload, wrote,
                 lcause>>

\* LoadCleanup without the unlink of line 159.
LoadCleanupKeepsCsv(f) ==
  /\ f \in DOMAIN lstate
  /\ lstate[f] = "committed"
  /\ IF f \in incoming
     THEN /\ incoming' = incoming \ {f}
          /\ archive' = archive \cup {f}
          /\ lstate' = [lstate EXCEPT ![f] = "success"]
          /\ UNCHANGED lcause
     ELSE /\ lstate' = [lstate EXCEPT ![f] = "failed"]
          /\ lcause' = Put(lcause, f, "move")
          /\ UNCHANGED <<incoming, archive>>
  /\ UNCHANGED <<errordir, csv, content, listState, listed, tstate, payload, wrote, db>>

\* Lines 158-161: unlink the CSV (missing_ok), move the original to archive/.
LoadCleanup(f) ==
  /\ f \in DOMAIN lstate
  /\ lstate[f] = "committed"
  /\ csv' = Drop(csv, payload[f].tmp_csv)
  /\ IF f \in incoming
     THEN /\ incoming' = incoming \ {f}
          /\ archive' = archive \cup {f}
          /\ lstate' = [lstate EXCEPT ![f] = "success"]
          /\ UNCHANGED lcause
     ELSE /\ lstate' = [lstate EXCEPT ![f] = "failed"]
          /\ lcause' = Put(lcause, f, "move")
          /\ UNCHANGED <<incoming, archive>>
  /\ UNCHANGED <<errordir, content, listState, listed, tstate, payload, wrote, db>>

Next ==
  \/ ListExcelFiles
  \/ \E f \in FileNames : ValidateAndTransform(f)
  \/ ExpandLoadUpsert
  \/ UpstreamFailed
  \/ \E f \in FileNames : LoadCopy(f)
  \/ \E f \in FileNames : LoadUpsertRow(f)
  \/ \E f \in FileNames : LoadDeadlock(f)
  \/ \E f \in FileNames : LoadDbError(f)
  \/ \E f \in FileNames : LoadCommit(f)
  \/ \E f \in FileNames : LoadCleanup(f)

Spec == Init /\ [][Next]_vars

\* ================================================================ claims
\* ---------------------------------------------------------------- C1
LoadedIds == UNION {IdsOf(commitLog[i].rows) : i \in 1..Len(commitLog)}

\* The rows of the most recently committed load that held id k.
LastLoadOf(k) ==
  LET with == {i \in 1..Len(commitLog) : k \in IdsOf(commitLog[i].rows)}
  IN  commitLog[CHOOSE i \in with : \A j \in with : j <= i].rows

RowsWithId(rows, k) == {r \in Range(rows) : r.id = k}

\* C1: after any sequence of committed loads, sales_daily holds exactly one
\* row for every id ever loaded, and that row is, column for column, the row
\* the most recently committed load holding that id copied from its file.
C1_TableReflectsLastLoad ==
  \A k \in LoadedIds :
    /\ Cardinality({r \in table : r.id = k}) = 1
    /\ {r \in table : r.id = k} = RowsWithId(LastLoadOf(k), k)

\* Two loads committed one after the other with different rows for one id,
\* and the table holds the later one.
C1_Witness ==
  /\ Len(commitLog) = 2
  /\ \E k \in IdsOf(commitLog[1].rows) \cap IdsOf(commitLog[2].rows) :
       /\ RowsWithId(commitLog[1].rows, k) # RowsWithId(commitLog[2].rows, k)
       /\ RowsWithId(commitLog[2].rows, k) \subseteq table

\* ---------------------------------------------------------------- C2
\* C2: once list_excel_files, validate_and_transform and load_upsert have all
\* succeeded for a file, its intermediate CSV does not exist, the file is not
\* in incoming/, it is in archive/ and it is not in error/.
C2_SuccessfulRunFilesAway ==
  \A f \in DOMAIN lstate :
    (listState = "success" /\ tstate[f] = "success" /\ lstate[f] = "success")
      => /\ payload[f].tmp_csv \notin DOMAIN csv
         /\ f \notin incoming
         /\ f \in archive
         /\ f \notin errordir

\* A run over two files in which every task instance succeeded.
C2_Witness ==
  /\ Cardinality(DOMAIN lstate) = 2
  /\ \A f \in DOMAIN lstate : tstate[f] = "success" /\ lstate[f] = "success"

\* ---------------------------------------------------------------- C3
\* No task instance is queued or running any more.
RunOver ==
  /\ listState # "pending"
  /\ \A f \in DOMAIN tstate : tstate[f] # "queued"
  /\ (listState = "success" => DOMAIN lstate # {})
  /\ \A f \in DOMAIN lstate : lstate[f] \in {"success", "failed", "upstream_failed"}

\* C3: a failure of one file's validate_and_transform or load_upsert does not
\* block its siblings: at the end of the run every file whose own transform
\* succeeded and whose own load did not fail has had its load_upsert run and
\* is archived.
C3_SiblingsNotBlocked ==
  RunOver =>
    \A f \in DOMAIN lstate :
      (tstate[f] = "success" /\ lstate[f] # "failed")
        => (lstate[f] = "success" /\ f \in archive)

\* ---------------------------------------------------------------- C4
\* C4: when the copy or the merge of load_upsert fails, the task instance is
\* failed and the original file is still in incoming/, not in archive/ and
\* not in error/.
C4_LoadFailureLeavesFile ==
  \A f \in DOMAIN lcause :
    lcause[f] \in {"csv_missing", "cardinality_violation", "deadlock", "db_error"}
      => /\ lstate[f] = "failed"
         /\ f \in incoming
         /\ f \notin archive
         /\ f \notin errordir

\* A merge failed on a file that holds one id twice.
C4_Witness ==
  \E f \in DOMAIN lcause :
    /\ lcause[f] = "cardinality_violation"
    /\ lstate[f] = "failed"
    /\ f \in incoming

\* ---------------------------------------------------------------- C5
\* The id column holds text that is no number.
HasTextId(sheet) ==
  /\ sheet.readable
  /\ "id" \in sheet.cols
  /\ \E i \in 1..Len(sheet.rows) :
       sheet.rows[i]["id"] # <<>> /\ ~IsNumeric(sheet.rows[i]["id"])

\* C5: validate_and_transform of a file whose id column holds a non-numeric
\* value fails, moves that file from incoming/ to error/ and changes nothing
\* else: archive/, the other files of incoming/ and the CSV files stay as
\* they were.
C5_TextIdGoesToError ==
  [][\A f \in DOMAIN tstate :
       (tstate[f] = "queued" /\ tstate'[f] # "queued" /\ HasTextId(content[f]))
         => /\ tstate'[f] = "failed"
            /\ f \in incoming
            /\ incoming' = incoming \ {f}
            /\ errordir' = errordir \cup {f}
            /\ archive' = archive
            /\ csv' = csv
            /\ payload' = payload]_vars

\* Of two listed files, the one with a text id failed and is in error/, the
\* other one wrote its CSV and is still in incoming/.
C5_Witness ==
  \E f \in DOMAIN tstate :
    /\ tstate[f] = "failed"
    /\ HasTextId(content[f])
    /\ MissingColumns(content[f]) = {}
    /\ f \in errordir
    /\ \E g \in DOMAIN tstate \ {f} : tstate[g] = "success" /\ g \in incoming

\* ---------------------------------------------------------------- C6
\* C6: concurrent load_upsert transactions carrying the same ids tolerate
\* each other: no load fails because of another one, and every id ever
\* committed has exactly one row, which is the row of one single load.
C6_ConcurrentUpsertsTolerated ==
  /\ \A f \in DOMAIN lcause : lcause[f] # "deadlock"
  /\ \A k \in LoadedIds :
       /\ Cardinality({r \in table : r.id = k}) = 1
       /\ \E i \in 1..Len(commitLog) :
            {r \in table : r.id = k} \subseteq Range(commitLog[i].rows)

\* ---------------------------------------------------------------- C7
\* The file has the required columns and no id cell holds text.
C7_Applies(sheet) ==
  /\ sheet.readable
  /\ MissingColumns(sheet) = {}
  /\ \A i \in 1..Len(sheet.rows) :
       sheet.rows[i]["id"] = <<>> \/ IsNumeric(sheet.rows[i]["id"])

\* The rows that have an id and a parseable date, cleaned.
C7_Surviving(sheet) ==
  LET kept == SelectSeq(sheet.rows,
                LAMBDA r : r["id"] # <<>> /\ r["date_order"] \in ValidDates)
  IN  [i \in 1..Len(kept) |-> CleanRow(kept[i])]

\* C7: for a file with the required columns, validate_and_transform drops
\* the rows missing id or with a missing or unparseable date_order and
\* writes exactly the remaining rows; a missing value does not fail the file.
C7_MissingValuesDropRows ==
  \A f \in DOMAIN tstate :
    (tstate[f] # "queued" /\ C7_Applies(content[f]))
      => /\ tstate[f] = "success"
         /\ wrote[f] = C7_Surviving(content[f])

\* ---------------------------------------------------------------- C8
\* C8: a spreadsheet with id, name_sales_code, date_order and amount_total
\* but no brand column passes the column check, validate_and_transform
\* succeeds and every row it writes has no brand.
C8_BrandOptional ==
  \A f \in DOMAIN tstate :
    ( /\ tstate[f] # "queued"
      /\ content[f].readable
      /\ content[f].cols = DOMAIN REQ_COLUMNS \ {"brand"}
      /\ \A i \in 1..Len(content[f].rows) : IsNumeric(content[f].rows[i]["id"]) )
      => /\ tstate[f] = "success"
         /\ \A i \in 1..Len(wrote[f]) : wrote[f][i].brand = <<>>

\* ---------------------------------------------------------------- C9
\* Letter case folded away, for the letters of the modelled names.
LowerChar(ch) ==
  CASE ch = "L" -> "l" [] ch = "S" -> "s" [] ch = "X" -> "x" [] OTHER -> ch

Lower(s) == [i \in 1..Len(s) |-> LowerChar(s[i])]

\* The names of the directory with the spreadsheet extension in any letter
\* case and without the lock-file prefix.
C9_Expected ==
  {n \in DOMAIN content : EndsWith(Lower(n), DotXlsx) /\ ~StartsWith(n, LockPrefix)}

\* C9: list_excel_files returns, sorted and without duplicates, exactly the
\* files of incoming/ whose extension is .xlsx in any letter case and whose
\* name does not start with "~$".
C9_DiscoveryAnyCase ==
  listState = "success" => listed = Sorted(C9_Expected)

\* --------------------------------------------------------------- C10
\* C10: two distinct listed files get distinct intermediate CSV paths, and
\* every load_upsert copies exactly the rows its own file's transform wrote.
C10_OwnArtifact ==
  /\ \A f \in DOMAIN payload : \A g \in DOMAIN payload :
       f # g => payload[f].tmp_csv # payload[g].tmp_csv
  /\ \A f \in DOMAIN staging : staging[f] = wrote[f]

====
